---- MODULE Spec2Model ----
(***************************************************************************)
(* Model of app.py: the job store (jobs, jobs_lock), the request handlers  *)
(* convert / status / download, the background task create_pdf_task and    *)
(* the generator frames_to_pdf_generator driven by save_frames_to_pdf.     *)
(*                                                                         *)
(* Granularity.  A `with jobs_lock:` block of k statements is k steps: the *)
(* first also acquires the lock, the last also releases it.  The reads    *)
(* status() and download() make of a record outside the lock are single    *)
(* steps that do not look at the lock.  The dict stored under a key        *)
(* (rec[j]) outlives its removal from the store (jobs): a handler that got *)
(* the reference keeps reading the live object.                            *)
(*                                                                         *)
(* Specifications.  One set of actions, initial conditions that vary        *)
(* different inputs (the variable mode):                                   *)
(*   Spec      one job with status and download requests in every          *)
(*             interleaving;                                               *)
(*   MultiSpec several jobs and download requests;                         *)
(*   PipeSpec  one task alone, frame sequences over four histograms and    *)
(*             every threshold, with the sampled and emitted frames kept   *)
(*             as history;                                                 *)
(*   ProgSpec  one task alone, every callback string, frame rate and       *)
(*             frame count, with the progress values written kept as       *)
(*             history;                                                    *)
(*   NameSpec  one task alone, every title;                                *)
(*   HangSpec  several jobs and download requests, with external calls     *)
(*             that never return;                                          *)
(*   RaceSpec  one job and concurrent download requests for it.            *)
(***************************************************************************)
EXTENDS Integers, Sequences, FiniteSets, TLC

\* ------------------------------------------------------------------ bounds
NumJobs      == 2   \* convert requests that can be made
NumQueries   == 1   \* concurrent status requests
NumRetrieves == 2   \* concurrent download requests
MaxCallbacks == 2   \* progress_hook calls per download
MaxFrames    == 2   \* largest CAP_PROP_FRAME_COUNT in the lifecycle runs
PipeFrames   == 4   \* largest CAP_PROP_FRAME_COUNT in the detector runs
ProgFrames   == 4   \* largest CAP_PROP_FRAME_COUNT in the progress runs

Jobs      == 1..NumJobs
Queries   == 1..NumQueries
Retrieves == 1..NumRetrieves

None == "None"          \* an absent string value
Nil  == <<"None">>      \* an absent sequence or pair value
NoFrame == [idx |-> -1, hist |-> <<>>]   \* last_good_frame = None
Free == <<"free", 0>>

VARIABLES
  mode,       \* which inputs are varied: "life", "multi", "pipe", "prog",
              \* "name", "hang" or "race"
  threshold,  \* scene_change_threshold in tenths
  jobs,       \* keys of the dict `jobs`
  rec,        \* rec[j]: the dict object stored under key j
  lock,       \* holder of jobs_lock
  ws,         \* ws[j]: the temp_dir of job j and the files in it
  cpc,        \* cpc[j]: position of the convert() request of job j
  tpc,        \* tpc[j]: position of the thread create_pdf_task of job j
  loc,        \* loc[j]: locals of that thread (and of its generator)
  trace,      \* trace[j]: what the thread of job j has done (history)
  qry,        \* qry[q]: a status() request
  ret         \* ret[r]: a download() request

vars == <<mode, threshold, jobs, rec, lock, ws, cpc, tpc, loc, trace, qry, ret>>

\* ------------------------------------------------------- strings as tuples
\* A Python str is a sequence of 1-character strings.
DigitChars == {"0", "1", "2", "3", "4", "5", "6", "7", "8", "9"}
SpaceChars == {" ", "\t", "\n"}
WordChars  == DigitChars \cup {"a", "b", "c", "A", "B", "_"}

DigitVal(c) ==
  CASE c = "0" -> 0 [] c = "1" -> 1 [] c = "2" -> 2 [] c = "3" -> 3
    [] c = "4" -> 4 [] c = "5" -> 5 [] c = "6" -> 6 [] c = "7" -> 7
    [] c = "8" -> 8 [] c = "9" -> 9

\* str.replace(ch, '')
RemoveChar(s, ch) == SelectSeq(s, LAMBDA c : c # ch)

RECURSIVE LStrip(_)
LStrip(s) == IF s # <<>> /\ Head(s) \in SpaceChars THEN LStrip(Tail(s)) ELSE s

RECURSIVE RStrip(_)
RStrip(s) ==
  IF s # <<>> /\ s[Len(s)] \in SpaceChars
    THEN RStrip(SubSeq(s, 1, Len(s) - 1)) ELSE s

\* str.strip()
Strip(s) == RStrip(LStrip(s))

RECURSIVE DigitsVal(_)
DigitsVal(s) ==
  IF s = <<>> THEN 0 ELSE 10 * DigitsVal(SubSeq(s, 1, Len(s) - 1)) + DigitVal(s[Len(s)])

RECURSIVE Pow10(_)
Pow10(n) == IF n = 0 THEN 1 ELSE 10 * Pow10(n - 1)

ValueError == <<"ValueError">>

\* float(s) for unsigned decimal literals; the value is the pair <<num, den>>.
\* Every other string of the model's alphabet raises ValueError.
ParseFloat(s) ==
  LET dots == {i \in 1..Len(s) : s[i] = "."}
      digs == RemoveChar(s, ".")
  IN IF /\ digs # <<>>
        /\ \A i \in 1..Len(digs) : digs[i] \in DigitChars
        /\ Cardinality(dots) <= 1
       THEN IF dots = {}
              THEN <<DigitsVal(digs), 1>>
              ELSE LET k == CHOOSE i \in dots : TRUE
                   IN <<DigitsVal(digs), Pow10(Len(s) - k)>>
       ELSE ValueError

\* ------------------------------------------------------ progress (rationals)
\* A progress value is a pair <<num, den>> with den > 0.
Rat(n, d) == <<n, d>>
RatLeq(a, b) == a[1] * b[2] <= b[1] * a[2]
RatEq(a, b)  == a[1] * b[2] = b[1] * a[2]
Zero    == Rat(0, 1)
Fifty   == Rat(50, 1)
Hundred == Rat(100, 1)

\* the download percentage taken over without the halving
DownloadProgressFull(percent) == Rat(percent[1], percent[2])

\* percent / 2
DownloadProgress(percent) == Rat(percent[1], 2 * percent[2])

\* 50 + ((frame_count / total_frames) * 100 if total_frames > 0 else 0) / 2
AnalysisProgress(frame_count, total_frames) ==
  IF total_frames > 0
    THEN Rat(100 * total_frames + 100 * frame_count, 2 * total_frames)
    ELSE Fifty

\* ------------------------------------------------------------ histograms
\* A histogram is the sequence of the bin counts calcHist returns.
RECURSIVE SumSeq(_)
SumSeq(s) == IF s = <<>> THEN 0 ELSE Head(s) + SumSeq(Tail(s))

SeqMin(s) == CHOOSE x \in {s[i] : i \in 1..Len(s)} : \A i \in 1..Len(s) : x <= s[i]
SeqMax(s) == CHOOSE x \in {s[i] : i \in 1..Len(s)} : \A i \in 1..Len(s) : x >= s[i]

\* cv2.normalize(h, h, 0, 1, NORM_MINMAX): (x - min) / (max - min), and all
\* zeros for a constant histogram.  The common denominator max - min is
\* dropped: HISTCMP_CORREL does not depend on a positive scale.
Normalize(h) ==
  IF SeqMax(h) = SeqMin(h)
    THEN [i \in 1..Len(h) |-> 0]
    ELSE [i \in 1..Len(h) |-> h[i] - SeqMin(h)]

Dot(a, b) == SumSeq([i \in 1..Len(a) |-> a[i] * b[i]])

\* cv2.compareHist(a, b, HISTCMP_CORREL) < t / 10, in integers:
\* score = num / sqrt(den2), and 1 when den2 is 0.
ScoreBelow(a, b, t) ==
  LET n    == Len(a)
      num  == n * Dot(a, b) - SumSeq(a) * SumSeq(b)
      den2 == (n * Dot(a, a) - SumSeq(a) * SumSeq(a))
                * (n * Dot(b, b) - SumSeq(b) * SumSeq(b))
  IN IF den2 = 0 THEN 10 < t
     ELSE IF num < 0 THEN TRUE
     ELSE 100 * num * num < t * t * den2

\* ------------------------------------------------------------- file names
\* re.sub(r'[^\w\s-]', '', title)
KeepPermitted(s) == SelectSeq(s, LAMBDA c : c \in WordChars \cup SpaceChars \cup {"-"})

\* re.sub(r'[-\s]+', '-', s)
RECURSIVE CollapseRuns(_)
CollapseRuns(s) ==
  IF s = <<>> THEN <<>>
  ELSE IF Head(s) \in SpaceChars \cup {"-"}
    THEN LET rest == CollapseRuns(Tail(s))
         IN IF Len(s) > 1 /\ s[2] \in SpaceChars \cup {"-"} THEN rest ELSE <<"-">> \o rest
  ELSE <<Head(s)>> \o CollapseRuns(Tail(s))

DefaultFilename == <<"v", "i", "d", "e", "o", "-", "s", "l", "i", "d", "e", "s", ".", "p", "d", "f">>

SafeFilename(video_title) ==
  LET s1 == Strip(KeepPermitted(video_title))
      s2 == CollapseRuns(s1) \o <<".", "p", "d", "f">>
  IN IF s2 = <<>> THEN DefaultFilename ELSE s2

\* ------------------------------------------------------------------ inputs
\* d['_percent_str'] as yt-dlp reports it; Missing: the key is absent.
Missing == <<"<missing>">>
PercentStrs ==
  IF mode = "prog"
    THEN { <<" ", "4", "0", "%">>, <<"1", "0", "0", "%">>, <<"2", ".", "5", "%">>,
           <<"N", "/", "A">>, Missing }
    ELSE { <<" ", "4", "0", "%">>, <<"N", "/", "A">> }
HookStatuses == IF mode = "prog" THEN {"downloading", "finished"} ELSE {"downloading"}

\* info.get('title', 'video_slides')
Titles ==
  IF mode = "name"
    THEN { <<"a", " ", "-", "b">>, <<"!", "?">>, <<"a", "!">>, <<" ", "-">>, <<>>,
           <<"?", "b", " ", " ", "c", "!">> }
    ELSE { <<"a", " ", "-", "b">> }

\* cap.get(CAP_PROP_FPS) in tenths of a frame per second
FpsVals == IF mode = "prog" THEN {0, 5, 10, 20, 25} ELSE {10}
FrameCounts ==
  IF mode = "pipe" THEN 0..PipeFrames
  ELSE IF mode = "prog" THEN 0..ProgFrames
  ELSE IF mode \in {"multi", "name", "hang", "race"} THEN {0, 2}
  ELSE 0..MaxFrames
\* calcHist of a frame: the counts of its three bins
Hists ==
  IF mode = "pipe"
    THEN { <<2, 0, 0>>, <<2, 1, 0>>, <<0, 2, 0>>, <<1, 1, 1>> }
  ELSE { <<2, 0, 0>>, <<0, 2, 0>> }
Thresholds == {0, 5, 7, 10}
\* what cv2.imwrite / Image.open / pdf.image do with one frame
EncodeOutcomes == IF mode = "life" THEN {"page", "skip", "raise"} ELSE {"page"}
\* how many times yt-dlp calls the hook during one download
Callbacks == IF mode \in {"multi", "name", "hang", "race"} THEN 0..1 ELSE 0..MaxCallbacks
\* the requests that are made: one job except in the multi-job runs
ActiveJobs == IF mode \in {"multi", "hang"} THEN Jobs ELSE {1}
\* the download requests that run at the same time: one except in the runs
\* with concurrent downloads of one job
ActiveRetrieves == IF mode = "race" THEN Retrieves ELSE {1}
DefaultThreshold == 7

\* ------------------------------------------------------------------- state
NoRec == [status |-> None, progress |-> Nil, stage |-> None,
          filepath |-> Nil, temp_dir |-> Nil, filename |-> Nil]

NoWs == [dir |-> "none", video |-> FALSE, pdf |-> FALSE]

NoLoc == [ncb |-> 0, title |-> Nil, total_frames |-> 0, frame_interval |-> 0,
          frame_count |-> 0, frame |-> NoFrame, last_good_frame |-> NoFrame,
          prev_hist |-> Nil, resume |-> "start", yielded |-> NoFrame,
          processed_frames |-> 0, pages |-> <<>>, pulled |-> <<>>, temp_img |-> 0,
          cause |-> None, rmtree |-> None]

NoTrace == [download |-> <<>>, analysis |-> <<>>, sampled |-> <<>>, emitted |-> <<>>,
            deleted |-> FALSE, title |-> Nil, fps |-> -1, stop |-> None]

NoQuery == [pc |-> "idle", id |-> 0, job |-> 0,
            after |-> FALSE, cleaned |-> FALSE, ended |-> FALSE,
            snap |-> [status |-> None, progress |-> Nil, stage |-> None, filename |-> Nil],
            result |-> None]

NoRetrieve == [pc |-> "idle", id |-> 0, job |-> 0, seen |-> None,
               filepath |-> Nil, temp_dir |-> Nil, filename |-> Nil,
               result |-> None, cleanup |-> None]

InitCommon ==
  /\ jobs = {}
  /\ rec = [j \in Jobs |-> NoRec]
  /\ lock = Free
  /\ ws = [j \in Jobs |-> NoWs]
  /\ cpc = [j \in Jobs |-> "idle"]
  /\ tpc = [j \in Jobs |-> "unstarted"]
  /\ loc = [j \in Jobs |-> NoLoc]
  /\ trace = [j \in Jobs |-> NoTrace]
  /\ qry = [q \in Queries |-> NoQuery]
  /\ ret = [r \in Retrieves |-> NoRetrieve]

Init == mode = "life" /\ threshold = DefaultThreshold /\ InitCommon

MultiInit == mode = "multi" /\ threshold = DefaultThreshold /\ InitCommon

PipeInit == mode = "pipe" /\ threshold \in Thresholds /\ InitCommon

ProgInit == mode = "prog" /\ threshold = DefaultThreshold /\ InitCommon

NameInit == mode = "name" /\ threshold = DefaultThreshold /\ InitCommon

HangInit == mode = "hang" /\ threshold = DefaultThreshold /\ InitCommon

RaceInit == mode = "race" /\ threshold = DefaultThreshold /\ InitCommon

\* the locals of a thread are gone when it ends; why it failed is history
Ended(l) == [NoLoc EXCEPT !.cause = l.cause, !.rmtree = l.rmtree, !.resume = l.resume]

\* the locals of the generator are gone when it ends
GenEnded(l) ==
  [l EXCEPT !.resume = "ended", !.frame = NoFrame, !.last_good_frame = NoFrame,
            !.prev_hist = Nil, !.frame_count = 0, !.total_frames = 0,
            !.frame_interval = 0]

Task(j) == <<"task", j>>

\* history is kept in the detector runs only
LogFields ==
  IF mode = "pipe" THEN {"sampled", "emitted", "stop"}
  ELSE IF mode = "prog" THEN {"download", "analysis", "sampled", "fps", "stop"}
  ELSE IF mode = "name" THEN {"title"}
  ELSE {}

Log(j, field, x) ==
  IF field \in LogFields
    THEN [trace EXCEPT ![j][field] = Append(@, x)]
    ELSE trace

\* the same for a value that is set once
Note(j, field, x) ==
  IF field \in LogFields
    THEN [trace EXCEPT ![j][field] = x]
    ELSE trace

\* ------------------------------------------------------------- convert()
\* convert() that builds the record but does not store it
convert_insert_norecord(j) ==
  /\ cpc[j] = "idle"
  /\ j \in ActiveJobs
  /\ lock = Free
  /\ rec' = [rec EXCEPT ![j] = [NoRec EXCEPT !.status = "pending",
                                             !.progress = Zero,
                                             !.stage = "Initializing"]]
  /\ cpc' = [cpc EXCEPT ![j] = "inserted"]
  /\ UNCHANGED <<mode, threshold, jobs, lock, ws, tpc, loc, trace, qry, ret>>

\* l.197-198: with jobs_lock: jobs[job_id] = {...}
convert_insert(j) ==
  /\ cpc[j] = "idle"
  /\ j \in ActiveJobs
  /\ lock = Free
  /\ jobs' = jobs \cup {j}
  /\ rec' = [rec EXCEPT ![j] = [NoRec EXCEPT !.status = "pending",
                                             !.progress = Zero,
                                             !.stage = "Initializing"]]
  /\ cpc' = [cpc EXCEPT ![j] = "inserted"]
  /\ UNCHANGED <<mode, threshold, lock, ws, tpc, loc, trace, qry, ret>>

\* l.200-201: thread.start()
convert_start(j) ==
  /\ cpc[j] = "inserted"
  /\ cpc' = [cpc EXCEPT ![j] = "started"]
  /\ tpc' = [tpc EXCEPT ![j] = "mkdtemp"]
  /\ UNCHANGED <<mode, threshold, jobs, rec, lock, ws, loc, trace, qry, ret>>

\* l.203: return jsonify({'job_id': job_id})
convert_return(j) ==
  /\ cpc[j] = "started"
  /\ cpc' = [cpc EXCEPT ![j] = "returned"]
  /\ UNCHANGED <<mode, threshold, jobs, rec, lock, ws, tpc, loc, trace, qry, ret>>

\* ----------------------------------------------------- create_pdf_task()
\* l.147-148: tempfile.mkdtemp; an OSError here is outside the try block and
\* ends the thread.
task_mkdtemp(j) ==
  /\ tpc[j] = "mkdtemp"
  /\ \E ok \in BOOLEAN :
       IF ok
         THEN /\ ws' = [ws EXCEPT ![j].dir = "present"]
              /\ tpc' = [tpc EXCEPT ![j] = "set_processing"]
         ELSE /\ ws' = ws
              /\ tpc' = [tpc EXCEPT ![j] = "died"]
  /\ loc' = [loc EXCEPT ![j].cause = IF tpc'[j] = "died" THEN "mkdtemp" ELSE @]
  /\ UNCHANGED <<mode, threshold, jobs, rec, lock, cpc, trace, qry, ret>>

\* l.150-151: with jobs_lock: jobs[job_id]['status'] = 'processing'
\* (a KeyError for a missing record is outside the try block)
task_processing(j) ==
  /\ tpc[j] = "set_processing"
  /\ lock = Free
  /\ IF j \in jobs
       THEN /\ rec' = [rec EXCEPT ![j].status = "processing"]
            /\ tpc' = [tpc EXCEPT ![j] = "download"]
            /\ loc' = loc
       ELSE /\ rec' = rec
            /\ tpc' = [tpc EXCEPT ![j] = "died"]
            /\ loc' = [loc EXCEPT ![j].cause = "KeyError"]
  /\ UNCHANGED <<mode, threshold, jobs, lock, ws, cpc, trace, qry, ret>>

\* l.28: d.get('_percent_str', '0%').replace('%','').strip()
PercentStr(d) ==
  Strip(RemoveChar(IF d.percent_str = Missing THEN <<"0", "%">> ELSE d.percent_str, "%"))

\* l.27-30: the hook writes iff the event is a download event of a stored
\* job whose percentage parses
HookApplies(j, d) ==
  /\ d.status = "downloading"
  /\ j \in jobs
  /\ ParseFloat(PercentStr(d)) # ValueError

\* l.25-32: progress_hook up to the write of progress
progress_hook(j) ==
  /\ tpc[j] = "download"
  /\ loc[j].ncb + 1 \in Callbacks
  /\ lock = Free
  /\ \E d \in [status : HookStatuses, percent_str : PercentStrs] :
       IF HookApplies(j, d)
         THEN /\ rec' = [rec EXCEPT ![j].progress =
                           DownloadProgress(ParseFloat(PercentStr(d)))]
              /\ lock' = Task(j)
              /\ tpc' = [tpc EXCEPT ![j] = "hook_stage"]
              /\ trace' = Log(j, "download",
                              [d |-> d, written |-> DownloadProgress(ParseFloat(PercentStr(d)))])
         ELSE /\ UNCHANGED <<rec, lock, tpc>>
              /\ trace' = Log(j, "download", [d |-> d, written |-> Nil])
  /\ loc' = [loc EXCEPT ![j].ncb = @ + 1]
  /\ UNCHANGED <<mode, threshold, jobs, ws, cpc, qry, ret>>

\* l.33: jobs[job_id]['stage'] = 'Downloading Video', and the lock is released
progress_hook_stage(j) ==
  /\ tpc[j] = "hook_stage"
  /\ lock = Task(j)
  /\ rec' = [rec EXCEPT ![j].stage = "Downloading Video"]
  /\ lock' = Free
  /\ tpc' = [tpc EXCEPT ![j] = "download"]
  /\ UNCHANGED <<mode, threshold, jobs, ws, cpc, loc, trace, qry, ret>>

\* l.49-55, 154-164: extract_info returns; on an error download_video returns
\* (None, None) and the task raises "Failed to download video."
download_video(j) ==
  /\ tpc[j] = "download"
  /\ \/ \E title \in Titles :
          /\ ws' = [ws EXCEPT ![j].video = TRUE]
          /\ loc' = [loc EXCEPT ![j].title = title, ![j].ncb = 0]
          /\ tpc' = [tpc EXCEPT ![j] = "pull"]
          /\ trace' = Note(j, "title", title)
     \/ /\ ws' = ws
        /\ loc' = [loc EXCEPT ![j].cause = "download", ![j].ncb = 0]
        /\ tpc' = [tpc EXCEPT ![j] = "set_failed"]
        /\ trace' = trace
  /\ UNCHANGED <<mode, threshold, jobs, rec, lock, cpc, qry, ret>>

\* ------------------------------------------------ frames_to_pdf_generator()
\* l.66-67: fps = cap.get(CAP_PROP_FPS) or 30;
\*          frame_interval = int(fps / sampling_rate_fps) or 1   (fps in tenths)
FrameInterval(fps) ==
  LET f == IF fps = 0 THEN 300 ELSE fps
      n == f \div 10
  IN IF n = 0 THEN 1 ELSE n

\* the update of l.99-101 with `frame_count += 1`
AdvanceByOne(l) ==
  [l EXCEPT !.last_good_frame = l.frame,
            !.prev_hist = Normalize(l.frame.hist),
            !.frame_count = l.frame_count + 1]

\* l.99-101: last_good_frame = frame; prev_hist = current_hist;
\*           frame_count += frame_interval
Advance(l) ==
  [l EXCEPT !.last_good_frame = l.frame,
            !.prev_hist = Normalize(l.frame.hist),
            !.frame_count = l.frame_count + l.frame_interval]

\* l.93-96: the three nested conditions that guard `yield last_good_frame`
SceneChange(l) ==
  /\ l.prev_hist # Nil
  /\ ScoreBelow(l.prev_hist, Normalize(l.frame.hist), threshold)
  /\ l.last_good_frame # NoFrame

\* `yield frame` in place of `yield last_good_frame`
ChangeYieldCurrent(l) == l.frame

\* l.97: the frame handed to the consumer at a scene change
ChangeYield(l) == l.last_good_frame

\* l.115 first next(): l.61-73, the generator opens the video
gen_open(j) ==
  /\ tpc[j] = "pull"
  /\ loc[j].resume = "start"
  /\ \/ /\ loc' = [loc EXCEPT ![j] = [GenEnded(@) EXCEPT !.cause = "noopen"]]
        /\ tpc' = [tpc EXCEPT ![j] = "after_loop"]
        /\ trace' = trace
     \/ \E fps \in FpsVals, total \in FrameCounts :
          /\ loc' = [loc EXCEPT ![j].resume = "running",
                                ![j].frame_interval = FrameInterval(fps),
                                ![j].total_frames = total,
                                ![j].frame_count = 0]
          /\ tpc' = [tpc EXCEPT ![j] = "gen_loop"]
          /\ trace' = Note(j, "fps", fps)
  /\ UNCHANGED <<mode, threshold, jobs, rec, lock, ws, cpc, qry, ret>>

\* gen_read with a failed read raising an error to the consumer
gen_read_raise(j) ==
  /\ tpc[j] = "gen_loop"
  /\ IF loc[j].frame_count < loc[j].total_frames
       THEN \/ \E h \in Hists :
                 LET f == [idx |-> loc[j].frame_count, hist |-> h]
                 IN /\ loc' = [loc EXCEPT ![j].frame = f]
                    /\ tpc' = [tpc EXCEPT ![j] = "gen_progress"]
                    /\ trace' = Log(j, "sampled", f)
            \/ /\ tpc' = [tpc EXCEPT ![j] = "set_failed"]
               /\ loc' = [loc EXCEPT ![j].cause = "decode"]
               /\ trace' = Note(j, "stop", "readfail")
       ELSE /\ tpc' = [tpc EXCEPT ![j] = "gen_flush"]
            /\ loc' = loc
            /\ trace' = Note(j, "stop", "eof")
  /\ UNCHANGED <<mode, threshold, jobs, rec, lock, ws, cpc, qry, ret>>

\* l.75-79: loop test, cap.set, cap.read
gen_read(j) ==
  /\ tpc[j] = "gen_loop"
  /\ IF loc[j].frame_count < loc[j].total_frames
       THEN \/ \E h \in Hists :
                 LET f == [idx |-> loc[j].frame_count, hist |-> h]
                 IN /\ loc' = [loc EXCEPT ![j].frame = f]
                    /\ tpc' = [tpc EXCEPT ![j] = "gen_progress"]
                    /\ trace' = Log(j, "sampled", f)
            \/ /\ tpc' = [tpc EXCEPT ![j] = "gen_flush"]
               /\ loc' = loc
               /\ trace' = Note(j, "stop", "readfail")
       ELSE /\ tpc' = [tpc EXCEPT ![j] = "gen_flush"]
            /\ loc' = loc
            /\ trace' = Note(j, "stop", "eof")
  /\ UNCHANGED <<mode, threshold, jobs, rec, lock, ws, cpc, qry, ret>>

\* l.81-85: with jobs_lock: if job_id in jobs: progress = 50 + analysis / 2
gen_progress(j) ==
  /\ tpc[j] = "gen_progress"
  /\ lock = Free
  /\ IF j \in jobs
       THEN LET p == AnalysisProgress(loc[j].frame_count, loc[j].total_frames)
            IN /\ rec' = [rec EXCEPT ![j].progress = p]
               /\ lock' = Task(j)
               /\ tpc' = [tpc EXCEPT ![j] = "gen_stage"]
               /\ trace' = Log(j, "analysis", p)
       ELSE /\ tpc' = [tpc EXCEPT ![j] = "gen_compare"]
            /\ UNCHANGED <<rec, lock, trace>>
  /\ UNCHANGED <<mode, threshold, jobs, ws, cpc, loc, qry, ret>>

\* l.86: stage = 'Analyzing Video for Slides', and the lock is released
gen_stage(j) ==
  /\ tpc[j] = "gen_stage"
  /\ lock = Task(j)
  /\ rec' = [rec EXCEPT ![j].stage = "Analyzing Video for Slides"]
  /\ lock' = Free
  /\ tpc' = [tpc EXCEPT ![j] = "gen_compare"]
  /\ UNCHANGED <<mode, threshold, jobs, ws, cpc, loc, trace, qry, ret>>

\* l.88-101: histogram, comparison, and either the yield of l.97 (the
\* generator is suspended there) or the update of l.99-101
gen_compare(j) ==
  /\ tpc[j] = "gen_compare"
  /\ IF SceneChange(loc[j])
       THEN /\ loc' = [loc EXCEPT ![j].yielded = ChangeYield(loc[j]),
                                  ![j].resume = "after_yield"]
            /\ tpc' = [tpc EXCEPT ![j] = "mktemp"]
            /\ trace' = Log(j, "emitted", [frame |-> ChangeYield(loc[j]),
                                           by |-> "change",
                                           at |-> loc[j].frame.idx])
       ELSE /\ loc' = [loc EXCEPT ![j] = Advance(@)]
            /\ tpc' = [tpc EXCEPT ![j] = "gen_loop"]
            /\ trace' = trace
  /\ UNCHANGED <<mode, threshold, jobs, rec, lock, ws, cpc, qry, ret>>

\* gen_resume without `last_good_frame = frame` after a yield
gen_resume_keepheld(j) ==
  /\ tpc[j] = "pull"
  /\ loc[j].resume = "after_yield"
  /\ loc' = [loc EXCEPT ![j] = [Advance(@) EXCEPT !.resume = "running",
                                                  !.last_good_frame = loc[j].last_good_frame]]
  /\ tpc' = [tpc EXCEPT ![j] = "gen_loop"]
  /\ UNCHANGED <<mode, threshold, jobs, rec, lock, ws, cpc, trace, qry, ret>>

\* l.115 next() after the yield of l.97: l.99-101
gen_resume(j) ==
  /\ tpc[j] = "pull"
  /\ loc[j].resume = "after_yield"
  /\ loc' = [loc EXCEPT ![j] = [Advance(@) EXCEPT !.resume = "running"]]
  /\ tpc' = [tpc EXCEPT ![j] = "gen_loop"]
  /\ UNCHANGED <<mode, threshold, jobs, rec, lock, ws, cpc, trace, qry, ret>>

\* the generator without the final `yield last_good_frame`
gen_flush_noflush(j) ==
  /\ tpc[j] = "gen_flush"
  /\ loc' = [loc EXCEPT ![j] = [GenEnded(@) EXCEPT !.cause =
                                   IF loc[j].last_good_frame = NoFrame THEN "noframe" ELSE @]]
  /\ tpc' = [tpc EXCEPT ![j] = "after_loop"]
  /\ trace' = trace
  /\ UNCHANGED <<mode, threshold, jobs, rec, lock, ws, cpc, qry, ret>>

\* l.103-106: the flush, or the end of the generator when nothing was read
gen_flush(j) ==
  /\ tpc[j] = "gen_flush"
  /\ IF loc[j].last_good_frame # NoFrame
       THEN /\ loc' = [loc EXCEPT ![j].yielded = loc[j].last_good_frame,
                                  ![j].resume = "after_flush"]
            /\ tpc' = [tpc EXCEPT ![j] = "mktemp"]
            /\ trace' = Log(j, "emitted", [frame |-> loc[j].last_good_frame,
                                           by |-> "flush",
                                           at |-> loc[j].frame_count])
       ELSE /\ loc' = [loc EXCEPT ![j] = [GenEnded(@) EXCEPT !.cause = "noframe"]]
            /\ tpc' = [tpc EXCEPT ![j] = "after_loop"]
            /\ trace' = trace
  /\ UNCHANGED <<mode, threshold, jobs, rec, lock, ws, cpc, qry, ret>>

\* l.115 next() after the yield of l.104: cap.release(), StopIteration
gen_release(j) ==
  /\ tpc[j] = "pull"
  /\ loc[j].resume = "after_flush"
  /\ loc' = [loc EXCEPT ![j] = GenEnded(@)]
  /\ tpc' = [tpc EXCEPT ![j] = "after_loop"]
  /\ UNCHANGED <<mode, threshold, jobs, rec, lock, ws, cpc, trace, qry, ret>>

\* ---------------------------------------------------- save_frames_to_pdf()
\* l.115-117: a frame has been pulled and its intermediate .jpg is created;
\* temp_img counts the intermediate files that exist
save_mktemp(j) ==
  /\ tpc[j] = "mktemp"
  /\ loc' = [loc EXCEPT ![j].temp_img = @ + 1]
  /\ tpc' = [tpc EXCEPT ![j] = "encode"]
  /\ UNCHANGED <<mode, threshold, jobs, rec, lock, ws, cpc, trace, qry, ret>>

\* what happened to the frame pulled last
Pulled(l, outcome) == Append(l.pulled, [idx |-> l.yielded.idx, outcome |-> outcome])

\* save_encode with the removal of l.135-136 after the try block instead of
\* in its finally clause: `continue` and an exception pass it by
save_encode_leak(j) ==
  /\ tpc[j] = "encode"
  /\ \E outcome \in EncodeOutcomes :
       \/ /\ outcome = "page"
          /\ loc' = [loc EXCEPT ![j].temp_img = @ - 1,
                                ![j].processed_frames = @ + 1,
                                ![j].pages = Append(@, loc[j].yielded.idx),
                                ![j].pulled = Pulled(loc[j], outcome)]
          /\ tpc' = [tpc EXCEPT ![j] = "pull"]
       \/ /\ outcome = "skip"
          /\ loc' = [loc EXCEPT ![j].pulled = Pulled(loc[j], outcome)]
          /\ tpc' = [tpc EXCEPT ![j] = "pull"]
       \/ /\ outcome = "raise"
          /\ loc' = [loc EXCEPT ![j].cause = "encode_raise",
                                ![j].pulled = Pulled(loc[j], outcome)]
          /\ tpc' = [tpc EXCEPT ![j] = "set_failed"]
  /\ UNCHANGED <<mode, threshold, jobs, rec, lock, ws, cpc, trace, qry, ret>>

\* l.119-136: "page": imwrite, Image.open, add_page and image succeed;
\* "skip": imwrite returns False and the loop continues; "raise": one of the
\* calls raises, which leaves the loop and the function.  The finally clause
\* removes the intermediate file on every path.
save_encode(j) ==
  /\ tpc[j] = "encode"
  /\ \E outcome \in EncodeOutcomes :
       \/ /\ outcome = "page"
          /\ loc' = [loc EXCEPT ![j].temp_img = @ - 1,
                                ![j].processed_frames = @ + 1,
                                ![j].pages = Append(@, loc[j].yielded.idx),
                                ![j].pulled = Pulled(loc[j], outcome)]
          /\ tpc' = [tpc EXCEPT ![j] = "pull"]
       \/ /\ outcome = "skip"
          /\ loc' = [loc EXCEPT ![j].temp_img = @ - 1,
                                ![j].pulled = Pulled(loc[j], outcome)]
          /\ tpc' = [tpc EXCEPT ![j] = "pull"]
       \/ /\ outcome = "raise"
          /\ loc' = [loc EXCEPT ![j].temp_img = @ - 1, ![j].cause = "encode_raise",
                                ![j].pulled = Pulled(loc[j], outcome)]
          /\ tpc' = [tpc EXCEPT ![j] = "set_failed"]
  /\ UNCHANGED <<mode, threshold, jobs, rec, lock, ws, cpc, trace, qry, ret>>

\* why save_frames_to_pdf returned False
NoPageCause(l) == IF l.cause \in {"noopen", "noframe"} THEN l.cause ELSE "nopage"

\* save_output with the test `processed_frames >= 0`
save_output_always(j) ==
  /\ tpc[j] = "after_loop"
  /\ ws' = [ws EXCEPT ![j].pdf = TRUE]
  /\ tpc' = [tpc EXCEPT ![j] = "set_complete"]
  /\ loc' = loc
  /\ UNCHANGED <<mode, threshold, jobs, rec, lock, cpc, trace, qry, ret>>

\* l.138-141 and 166-168: pdf.output when a page exists, else the task raises
\* "No unique frames found to create PDF."
save_output(j) ==
  /\ tpc[j] = "after_loop"
  /\ IF loc[j].processed_frames > 0
       THEN \/ /\ ws' = [ws EXCEPT ![j].pdf = TRUE]
               /\ tpc' = [tpc EXCEPT ![j] = "set_complete"]
               /\ loc' = loc
            \/ \E partial \in BOOLEAN :
                 /\ ws' = [ws EXCEPT ![j].pdf = partial]
                 /\ tpc' = [tpc EXCEPT ![j] = "set_failed"]
                 /\ loc' = [loc EXCEPT ![j].cause = "output_raise"]
       ELSE /\ ws' = ws
            /\ tpc' = [tpc EXCEPT ![j] = "set_failed"]
            /\ loc' = [loc EXCEPT ![j].cause = NoPageCause(loc[j])]
  /\ UNCHANGED <<mode, threshold, jobs, rec, lock, cpc, trace, qry, ret>>

\* ------------------------------------------ create_pdf_task(): the outcome
\* l.170-172: with jobs_lock: if job_id in jobs: status = 'complete'
complete_status(j) ==
  /\ tpc[j] = "set_complete"
  /\ lock = Free
  /\ IF j \in jobs
       THEN /\ rec' = [rec EXCEPT ![j].status = "complete"]
            /\ lock' = Task(j)
            /\ tpc' = [tpc EXCEPT ![j] = "set_filepath"]
       ELSE /\ UNCHANGED <<rec, lock>>
            /\ tpc' = [tpc EXCEPT ![j] = "done"]
  /\ loc' = [loc EXCEPT ![j] = IF tpc'[j] = "done" THEN Ended(@) ELSE @]
  /\ UNCHANGED <<mode, threshold, jobs, ws, cpc, trace, qry, ret>>

\* l.173: jobs[job_id]['filepath'] = output_pdf
complete_filepath(j) ==
  /\ tpc[j] = "set_filepath"
  /\ lock = Task(j)
  /\ rec' = [rec EXCEPT ![j].filepath = <<"output.pdf", j>>]
  /\ tpc' = [tpc EXCEPT ![j] = "set_temp_dir"]
  /\ UNCHANGED <<mode, threshold, jobs, lock, ws, cpc, loc, trace, qry, ret>>

\* l.174: jobs[job_id]['temp_dir'] = temp_dir
complete_temp_dir(j) ==
  /\ tpc[j] = "set_temp_dir"
  /\ lock = Task(j)
  /\ rec' = [rec EXCEPT ![j].temp_dir = <<"temp_dir", j>>]
  /\ tpc' = [tpc EXCEPT ![j] = "set_filename"]
  /\ UNCHANGED <<mode, threshold, jobs, lock, ws, cpc, loc, trace, qry, ret>>

\* l.175-176: jobs[job_id]['filename'] = safe_filename, and the lock is released
complete_filename(j) ==
  /\ tpc[j] = "set_filename"
  /\ lock = Task(j)
  /\ rec' = [rec EXCEPT ![j].filename = SafeFilename(loc[j].title)]
  /\ lock' = Free
  /\ tpc' = [tpc EXCEPT ![j] = "done"]
  /\ loc' = [loc EXCEPT ![j] = Ended(@)]
  /\ UNCHANGED <<mode, threshold, jobs, ws, cpc, trace, qry, ret>>

\* task_failed that marks the failure and falls through to the completion
\* write instead of leaving the try block
task_failed_fallthrough(j) ==
  /\ tpc[j] = "set_failed"
  /\ lock = Free
  /\ rec' = IF j \in jobs THEN [rec EXCEPT ![j].status = "failed"] ELSE rec
  /\ tpc' = [tpc EXCEPT ![j] = "set_complete"]
  /\ UNCHANGED <<mode, threshold, jobs, lock, ws, cpc, loc, trace, qry, ret>>

\* l.178-182: except: with jobs_lock: if job_id in jobs: status = 'failed'
task_failed(j) ==
  /\ tpc[j] = "set_failed"
  /\ lock = Free
  /\ rec' = IF j \in jobs THEN [rec EXCEPT ![j].status = "failed"] ELSE rec
  /\ tpc' = [tpc EXCEPT ![j] = "rmtree"]
  /\ UNCHANGED <<mode, threshold, jobs, lock, ws, cpc, loc, trace, qry, ret>>

\* shutil.rmtree: the directory and everything in it is gone
Removed(w) == [dir |-> "removed", video |-> FALSE, pdf |-> FALSE]

\* l.183: shutil.rmtree(temp_dir, ignore_errors=True); an error of the
\* deletion is swallowed and leaves the directory behind
task_rmtree(j) ==
  /\ tpc[j] = "rmtree"
  /\ \E ok \in BOOLEAN :
       /\ ws' = IF ok THEN [ws EXCEPT ![j] = Removed(@)] ELSE ws
       /\ loc' = [loc EXCEPT ![j] = [Ended(@) EXCEPT !.rmtree = IF ok THEN "ok" ELSE "error"]]
  /\ tpc' = [tpc EXCEPT ![j] = "done"]
  /\ UNCHANGED <<mode, threshold, jobs, rec, lock, cpc, trace, qry, ret>>

\* ---------------------------------------------------------------- status()
\* l.207-210: with jobs_lock: job = jobs.get(job_id, {}); 404 when it is empty.
\* `job` is the stored dict itself, not a copy.
status_get(q) ==
  /\ qry[q].pc = "idle"
  /\ lock = Free
  /\ \E id \in Jobs :
       qry' = [qry EXCEPT ![q] =
                 [NoQuery EXCEPT !.id = id,
                                 !.after = (cpc[id] = "returned"),
                                 !.cleaned = trace[id].deleted,
                                 !.ended = (tpc[id] \in {"done", "died"}),
                                 !.job = IF id \in jobs THEN id ELSE 0,
                                 !.result = IF id \in jobs THEN None ELSE "not_found",
                                 !.pc = IF id \in jobs THEN "status" ELSE "done"]]
  /\ UNCHANGED <<mode, threshold, jobs, rec, lock, ws, cpc, tpc, loc, trace, ret>>

\* l.212: job.get('status')
status_read_status(q) ==
  /\ qry[q].pc = "status"
  /\ qry' = [qry EXCEPT ![q].snap.status = rec[qry[q].job].status,
                        ![q].pc = "progress"]
  /\ UNCHANGED <<mode, threshold, jobs, rec, lock, ws, cpc, tpc, loc, trace, ret>>

\* l.213: job.get('progress')
status_read_progress(q) ==
  /\ qry[q].pc = "progress"
  /\ qry' = [qry EXCEPT ![q].snap.progress = rec[qry[q].job].progress,
                        ![q].pc = "stage"]
  /\ UNCHANGED <<mode, threshold, jobs, rec, lock, ws, cpc, tpc, loc, trace, ret>>

\* l.214: job.get('stage')
status_read_stage(q) ==
  /\ qry[q].pc = "stage"
  /\ qry' = [qry EXCEPT ![q].snap.stage = rec[qry[q].job].stage,
                        ![q].pc = "filename"]
  /\ UNCHANGED <<mode, threshold, jobs, rec, lock, ws, cpc, tpc, loc, trace, ret>>

\* l.215-216: job.get('filename'), and the snapshot is the response
status_read_filename(q) ==
  /\ qry[q].pc = "filename"
  /\ qry' = [qry EXCEPT ![q].snap.filename = rec[qry[q].job].filename,
                        ![q].result = "ok",
                        ![q].pc = "done"]
  /\ UNCHANGED <<mode, threshold, jobs, rec, lock, ws, cpc, tpc, loc, trace, ret>>

\* the response is sent; the next status request can come
status_return(q) ==
  /\ qry[q].pc = "done"
  /\ qry' = [qry EXCEPT ![q] = NoQuery]
  /\ UNCHANGED <<mode, threshold, jobs, rec, lock, ws, cpc, tpc, loc, trace, ret>>

\* -------------------------------------------------------------- download()
\* l.220-223: with jobs_lock: job = jobs.get(job_id, None); 404 when None
download_get(r) ==
  /\ ret[r].pc = "idle"
  /\ r \in ActiveRetrieves
  /\ lock = Free
  /\ \E id \in Jobs :
       ret' = [ret EXCEPT ![r] =
                 [NoRetrieve EXCEPT !.id = id,
                                    !.job = IF id \in jobs THEN id ELSE 0,
                                    !.result = IF id \in jobs THEN None ELSE "404",
                                    !.pc = IF id \in jobs THEN "check" ELSE "done"]]
  /\ UNCHANGED <<mode, threshold, jobs, rec, lock, ws, cpc, tpc, loc, trace, qry>>

\* the test of l.223 as `status not in ('pending', 'processing')`
RetrieveAllowedTerminal(status) == status \in {"complete", "failed"}

\* l.223: the test that lets a request through
RetrieveAllowed(status) == status = "complete"

\* l.223-224: job.get('status') != 'complete' -> 404
download_check(r) ==
  /\ ret[r].pc = "check"
  /\ LET st == rec[ret[r].job].status
     IN ret' = [ret EXCEPT ![r].seen = st,
                           ![r].result = IF RetrieveAllowed(st) THEN None ELSE "404",
                           ![r].pc = IF RetrieveAllowed(st) THEN "filepath" ELSE "done"]
  /\ UNCHANGED <<mode, threshold, jobs, rec, lock, ws, cpc, tpc, loc, trace, qry>>

\* l.226: filepath = job['filepath'] (KeyError when the key is not there yet)
download_filepath(r) ==
  /\ ret[r].pc = "filepath"
  /\ LET v == rec[ret[r].job].filepath
     IN ret' = [ret EXCEPT ![r].filepath = v,
                           ![r].result = IF v = Nil THEN "KeyError" ELSE None,
                           ![r].pc = IF v = Nil THEN "done" ELSE "temp_dir"]
  /\ UNCHANGED <<mode, threshold, jobs, rec, lock, ws, cpc, tpc, loc, trace, qry>>

\* l.227: temp_dir = job['temp_dir']
download_temp_dir(r) ==
  /\ ret[r].pc = "temp_dir"
  /\ LET v == rec[ret[r].job].temp_dir
     IN ret' = [ret EXCEPT ![r].temp_dir = v,
                           ![r].result = IF v = Nil THEN "KeyError" ELSE None,
                           ![r].pc = IF v = Nil THEN "done" ELSE "filename"]
  /\ UNCHANGED <<mode, threshold, jobs, rec, lock, ws, cpc, tpc, loc, trace, qry>>

\* l.228: filename = job.get('filename', 'slides.pdf')
download_filename(r) ==
  /\ ret[r].pc = "filename"
  /\ LET v == rec[ret[r].job].filename
     IN ret' = [ret EXCEPT ![r].filename =
                             IF v = Nil
                               THEN <<"s", "l", "i", "d", "e", "s", ".", "p", "d", "f">>
                               ELSE v,
                           ![r].pc = "send"]
  /\ UNCHANGED <<mode, threshold, jobs, rec, lock, ws, cpc, tpc, loc, trace, qry>>

\* l.230-242: send_file opens the document; cleanup is registered for the end
\* of the request.  When send_file raises, whether Flask still runs the
\* after-request function depends on its configuration (debug propagates).
download_send(r) ==
  /\ ret[r].pc = "send"
  /\ IF ws[ret[r].temp_dir[2]].pdf
       THEN ret' = [ret EXCEPT ![r].result = "file", ![r].pc = "cleanup"]
       ELSE \E runs \in BOOLEAN :
              ret' = [ret EXCEPT ![r].result = "FileNotFoundError",
                                 ![r].pc = IF runs THEN "cleanup" ELSE "done"]
  /\ UNCHANGED <<mode, threshold, jobs, rec, lock, ws, cpc, tpc, loc, trace, qry>>

\* l.232-233, 238-239: shutil.rmtree(temp_dir); an error skips the rest of
\* the try block
cleanup_rmtree(r) ==
  /\ ret[r].pc = "cleanup"
  /\ LET d == ret[r].temp_dir[2]
     IN \E ok \in BOOLEAN :
          IF ok /\ ws[d].dir = "present"
            THEN /\ ws' = [ws EXCEPT ![d] = Removed(@)]
                 /\ ret' = [ret EXCEPT ![r].pc = "del"]
            ELSE /\ ws' = ws
                 /\ ret' = [ret EXCEPT ![r].cleanup = "error", ![r].pc = "done"]
  /\ UNCHANGED <<mode, threshold, jobs, rec, lock, cpc, tpc, loc, trace, qry>>

\* l.234-237: with jobs_lock: if job_id in jobs: del jobs[job_id]
cleanup_del(r) ==
  /\ ret[r].pc = "del"
  /\ lock = Free
  /\ jobs' = jobs \ {ret[r].id}
  /\ trace' = [trace EXCEPT ![ret[r].id].deleted = @ \/ ret[r].id \in jobs]
  /\ ret' = [ret EXCEPT ![r].cleanup = "ok", ![r].pc = "done"]
  /\ UNCHANGED <<mode, threshold, rec, lock, ws, cpc, tpc, loc, qry>>

\* the response is sent; the next download request can come
download_return(r) ==
  /\ ret[r].pc = "done"
  /\ ret' = [ret EXCEPT ![r] = NoRetrieve]
  /\ UNCHANGED <<mode, threshold, jobs, rec, lock, ws, cpc, tpc, loc, trace, qry>>

\* ----------------------------------------------------------- specifications
ConvertStep(j) == convert_insert(j) \/ convert_start(j) \/ convert_return(j)

LocalStep(j) ==
  \/ task_mkdtemp(j)
  \/ gen_open(j) \/ gen_read(j) \/ gen_compare(j) \/ gen_resume(j)
  \/ gen_flush(j) \/ gen_release(j)
  \/ save_mktemp(j) \/ save_encode(j) \/ save_output(j)
  \/ task_rmtree(j)

SharedStep(j) ==
  \/ task_processing(j)
  \/ progress_hook(j) \/ progress_hook_stage(j) \/ download_video(j)
  \/ gen_progress(j) \/ gen_stage(j)
  \/ complete_status(j) \/ complete_filepath(j) \/ complete_temp_dir(j)
  \/ complete_filename(j) \/ task_failed(j)

\* The positions of a task whose next step touches nothing but the task's
\* own locals and its own, not yet published, workspace.
LocalPcs == {"mkdtemp", "pull", "gen_loop", "gen_compare", "gen_flush",
             "mktemp", "encode", "after_loop", "rmtree"}

\* Such a step commutes with every step of every other thread, so it is
\* taken as soon as it is enabled: the other threads are scheduled only
\* between two accesses to the shared state.
Quiet == \A j \in Jobs : tpc[j] \notin LocalPcs

Next ==
  \/ \E j \in Jobs : LocalStep(j)
  \/ \E j \in Jobs : Quiet /\ convert_insert(j)
  \/ \E j \in Jobs : Quiet /\ convert_start(j)
  \/ \E j \in Jobs : Quiet /\ convert_return(j)
  \/ \E j \in Jobs : Quiet /\ task_processing(j)
  \/ \E j \in Jobs : Quiet /\ progress_hook(j)
  \/ \E j \in Jobs : Quiet /\ progress_hook_stage(j)
  \/ \E j \in Jobs : Quiet /\ download_video(j)
  \/ \E j \in Jobs : Quiet /\ gen_progress(j)
  \/ \E j \in Jobs : Quiet /\ gen_stage(j)
  \/ \E j \in Jobs : Quiet /\ complete_status(j)
  \/ \E j \in Jobs : Quiet /\ complete_filepath(j)
  \/ \E j \in Jobs : Quiet /\ complete_temp_dir(j)
  \/ \E j \in Jobs : Quiet /\ complete_filename(j)
  \/ \E j \in Jobs : Quiet /\ task_failed(j)
  \/ \E q \in Queries : Quiet /\ status_get(q)
  \/ \E q \in Queries : Quiet /\ status_read_status(q)
  \/ \E q \in Queries : Quiet /\ status_read_progress(q)
  \/ \E q \in Queries : Quiet /\ status_read_stage(q)
  \/ \E q \in Queries : Quiet /\ status_read_filename(q)
  \/ \E q \in Queries : Quiet /\ status_return(q)
  \/ \E r \in Retrieves : Quiet /\ download_get(r)
  \/ \E r \in Retrieves : Quiet /\ download_check(r)
  \/ \E r \in Retrieves : Quiet /\ download_filepath(r)
  \/ \E r \in Retrieves : Quiet /\ download_temp_dir(r)
  \/ \E r \in Retrieves : Quiet /\ download_filename(r)
  \/ \E r \in Retrieves : Quiet /\ download_send(r)
  \/ \E r \in Retrieves : Quiet /\ cleanup_rmtree(r)
  \/ \E r \in Retrieves : Quiet /\ cleanup_del(r)
  \/ \E r \in Retrieves : Quiet /\ download_return(r)

Spec == Init /\ [][Next]_vars

PipeNext ==
  \/ \E j \in Jobs : ConvertStep(j)
  \/ \E j \in Jobs : LocalStep(j)
  \/ \E j \in Jobs : SharedStep(j)

PipeSpec == PipeInit /\ [][PipeNext]_vars

ProgSpec == ProgInit /\ [][PipeNext]_vars

NameSpec == NameInit /\ [][PipeNext]_vars

MultiNext ==
  \/ \E j \in Jobs : LocalStep(j)
  \/ \E j \in Jobs : Quiet /\ convert_insert(j)
  \/ \E j \in Jobs : Quiet /\ convert_start(j)
  \/ \E j \in Jobs : Quiet /\ convert_return(j)
  \/ \E j \in Jobs : Quiet /\ task_processing(j)
  \/ \E j \in Jobs : Quiet /\ progress_hook(j)
  \/ \E j \in Jobs : Quiet /\ progress_hook_stage(j)
  \/ \E j \in Jobs : Quiet /\ download_video(j)
  \/ \E j \in Jobs : Quiet /\ gen_progress(j)
  \/ \E j \in Jobs : Quiet /\ gen_stage(j)
  \/ \E j \in Jobs : Quiet /\ complete_status(j)
  \/ \E j \in Jobs : Quiet /\ complete_filepath(j)
  \/ \E j \in Jobs : Quiet /\ complete_temp_dir(j)
  \/ \E j \in Jobs : Quiet /\ complete_filename(j)
  \/ \E j \in Jobs : Quiet /\ task_failed(j)
  \/ \E r \in Retrieves : Quiet /\ download_get(r)
  \/ \E r \in Retrieves : Quiet /\ download_check(r)
  \/ \E r \in Retrieves : Quiet /\ download_filepath(r)
  \/ \E r \in Retrieves : Quiet /\ download_temp_dir(r)
  \/ \E r \in Retrieves : Quiet /\ download_filename(r)
  \/ \E r \in Retrieves : Quiet /\ download_send(r)
  \/ \E r \in Retrieves : Quiet /\ cleanup_rmtree(r)
  \/ \E r \in Retrieves : Quiet /\ cleanup_del(r)
  \/ \E r \in Retrieves : Quiet /\ download_return(r)

MultiSpec == MultiInit /\ [][MultiNext]_vars

\* The calls into yt-dlp (l.49), OpenCV (l.77, 120) and PIL/FPDF (l.124-132)
\* during which a thread can block for ever.
HangPcs == {"download", "gen_loop", "encode"}

\* an external call that never returns: the thread takes no further step
hang(j) ==
  /\ tpc[j] \in HangPcs
  /\ tpc[j] \in LocalPcs \/ Quiet
  /\ tpc' = [tpc EXCEPT ![j] = "hung"]
  /\ UNCHANGED <<mode, threshold, jobs, rec, lock, ws, cpc, loc, trace, qry, ret>>

HangNext ==
  \/ MultiNext
  \/ \E j \in Jobs : hang(j)

HangSpec == HangInit /\ [][HangNext]_vars

RaceSpec == RaceInit /\ [][MultiNext]_vars

\* ==================================================================== claims
Terminal == {"complete", "failed"}

\* the positions of a task at which a pipeline stage is still to run
StagePcs == {"mkdtemp", "set_processing", "download", "hook_stage", "pull",
             "gen_loop", "gen_progress", "gen_stage", "gen_compare", "gen_flush",
             "mktemp", "encode", "after_loop", "set_complete", "set_failed"}

StatusSteps == { <<None, "pending">>, <<"pending", "processing">>,
                 <<"processing", "complete">>, <<"processing", "failed">> }

\* C1: the status of a job only moves None -> pending -> processing ->
\* (complete | failed): pending is written by convert() alone, processing by
\* the task's first write alone, and once a terminal value is written the
\* status never changes again and the task has no pipeline stage left to run.
C1_StatusLifecycle ==
  /\ [](\A j \in Jobs :
          /\ rec[j].status \in Terminal => tpc[j] \notin StagePcs
          /\ rec[j].status = "pending" => tpc[j] \in {"unstarted", "mkdtemp", "set_processing", "died"}
          /\ rec[j].status = None => cpc[j] = "idle")
  /\ [][\A j \in Jobs :
          rec'[j].status # rec[j].status =>
            /\ <<rec[j].status, rec'[j].status>> \in StatusSteps
            /\ rec[j].status = None => cpc[j] = "idle" /\ cpc'[j] = "inserted"
            /\ rec[j].status = "pending" => tpc[j] = "set_processing"]_vars

\* C1 witness: a job has been through pending and processing, is complete,
\* and its task has ended.
C1_Witness ==
  \E j \in Jobs : rec[j].status = "complete" /\ tpc[j] = "done" /\ ws[j].pdf

\* C2 (as a final result): a job whose task has ended is complete or failed.
\* A task that has ended writes nothing more, so a job it leaves in pending
\* or processing stays there forever.
C2_EndedTaskLeftTerminalStatus ==
  \A j \in Jobs : tpc[j] \in {"done", "died"} => rec[j].status \in Terminal

\* the pipeline failures C3 names
StageFailures == {"download", "noopen", "noframe", "nopage"}

FailedStage(j) == tpc[j] = "done" /\ loc[j].cause \in StageFailures

\* C3 as stated: after a stage failure the job is failed, no document was
\* written, the workspace is deleted when the task has ended, the record is
\* still stored and a later status request reports failed.
C3_StageFailureAsStated ==
  /\ \A j \in Jobs :
       /\ loc[j].cause \in StageFailures => ~ws[j].pdf /\ rec[j].status # "complete"
       /\ FailedStage(j) =>
            /\ rec[j].status = "failed"
            /\ ws[j].dir = "removed"
            /\ j \in jobs
  /\ \A q \in Queries :
       qry[q].pc = "done" /\ qry[q].ended /\ FailedStage(qry[q].id) =>
         qry[q].result = "ok" /\ qry[q].snap.status = "failed"

\* C3 amended: as C3, but the workspace is gone only if the one deletion the
\* task attempts succeeds; an error of that deletion is ignored and leaves
\* the workspace behind.
C3_StageFailure ==
  /\ \A j \in Jobs :
       /\ loc[j].cause \in StageFailures => ~ws[j].pdf /\ rec[j].status # "complete"
       /\ FailedStage(j) =>
            /\ rec[j].status = "failed"
            /\ loc[j].rmtree \in {"ok", "error"}
            /\ loc[j].rmtree = "ok" => ws[j].dir = "removed"
            /\ loc[j].rmtree = "error" => ws[j].dir = "present"
            /\ j \in jobs
  /\ \A q \in Queries :
       qry[q].pc = "done" /\ qry[q].ended /\ FailedStage(qry[q].id) =>
         qry[q].result = "ok" /\ qry[q].snap.status = "failed"

\* C3 witness: a video that yields no frame; the job is failed, its
\* workspace is deleted, and a status request made afterwards has answered.
C3_Witness ==
  \E j \in Jobs, q \in Queries :
    /\ FailedStage(j) /\ loc[j].cause = "noframe" /\ ws[j].dir = "removed"
    /\ qry[q].pc = "done" /\ qry[q].id = j /\ qry[q].ended

\* C4: when a download request has delivered the document and its cleanup
\* has run, the record of the job is no longer in the store.
C4_RecordRemovedAfterCleanup ==
  \A r \in Retrieves :
    ret[r].pc = "done" /\ ret[r].result = "file" /\ ret[r].cleanup # None =>
      ret[r].id \notin jobs

PastCheckPcs == {"filepath", "temp_dir", "filename", "send", "cleanup", "del"}

\* C5: a download request gets past the check only when it read status
\* complete.  A request for an id that is not stored, or for a job it reads
\* as pending, processing or failed, answers 404; the step that rejects it
\* changes no record, no workspace and not the store, and the rejected
\* request takes no further step (no send, no cleanup) before it returns.
C5_RetrieveOnlyWhenComplete ==
  /\ [](\A r \in Retrieves :
          /\ (ret[r].pc \in PastCheckPcs \/ ret[r].result = "file" \/ ret[r].cleanup # None)
               => ret[r].seen = "complete" /\ rec[ret[r].id].status = "complete"
          /\ ret[r].result = "404" =>
               /\ ret[r].pc = "done" /\ ret[r].cleanup = None
               /\ ret[r].job = 0 \/ ret[r].seen \in {"pending", "processing", "failed"})
  /\ [][\A r \in Retrieves :
          /\ (ret[r].pc = "idle" /\ ret'[r].pc # "idle" /\ ret'[r].id \notin jobs)
               => ret'[r].result = "404"
          /\ (ret[r].pc = "check" /\ ret'[r].pc # "check" /\ rec[ret[r].job].status # "complete")
               => ret'[r].result = "404"
          /\ (ret[r].result # "404" /\ ret'[r].result = "404")
               => jobs' = jobs /\ rec' = rec /\ ws' = ws
          /\ ret[r].result = "404" => ret'[r] \in {ret[r], NoRetrieve}]_vars

\* C5 witness: a request for a failed job was rejected while the record of
\* another, complete job is in the store.
C5_Witness ==
  \E r \in Retrieves, j \in Jobs :
    /\ ret[r].result = "404" /\ ret[r].seen = "failed"
    /\ j # ret[r].id /\ j \in jobs /\ rec[j].status = "complete" /\ ws[j].pdf

\* C6 (the consequence the claim names): a snapshot returned by status()
\* carries a filename only together with status complete.
C6_SnapshotFilenameOnlyWhenComplete ==
  \A q \in Queries :
    qry[q].result = "ok" /\ qry[q].snap.filename # Nil => qry[q].snap.status = "complete"

InRange(p, lo, hi) == RatLeq(lo, p) /\ RatLeq(p, hi)
NonDecreasing(seq) == \A i \in 1..(Len(seq) - 1) : RatLeq(seq[i], seq[i + 1])

\* the hook calls of job j that wrote, and the values they wrote
Applied(j) == SelectSeq(trace[j].download, LAMBDA e : e.written # Nil)
WrittenInDownload(j) == [i \in 1..Len(Applied(j)) |-> Applied(j)[i].written]
CallbackValues(j) == [i \in 1..Len(Applied(j)) |-> ParseFloat(PercentStr(Applied(j)[i].d))]

\* a hook call that does not write leaves progress and stage as they were:
\* between two hook calls the record holds what the last writing call wrote
HookLeavesRest(j) ==
  tpc[j] = "download" =>
    IF Applied(j) = <<>>
      THEN rec[j].progress = Zero /\ rec[j].stage = "Initializing"
      ELSE /\ rec[j].progress = Applied(j)[Len(Applied(j))].written
           /\ rec[j].stage = "Downloading Video"

NumericCallback(d) == ParseFloat(PercentStr(d)) # ValueError

ProgressBounds(j) ==
  /\ \A i \in 1..Len(WrittenInDownload(j)) : InRange(WrittenInDownload(j)[i], Zero, Fifty)
  /\ \A i \in 1..Len(trace[j].analysis) : InRange(trace[j].analysis[i], Fifty, Hundred)
  /\ NonDecreasing(trace[j].analysis)
  /\ \A i \in 1..Len(trace[j].download) :
       ~NumericCallback(trace[j].download[i].d) => trace[j].download[i].written = Nil
  /\ HookLeavesRest(j)

InitialRecord == [NoRec EXCEPT !.status = "pending", !.progress = Zero, !.stage = "Initializing"]

\* the positions at which a task still reads or writes its record
RecordPcs == {"set_processing", "download", "hook_stage", "gen_progress", "gen_stage",
              "set_complete", "set_filepath", "set_temp_dir", "set_filename", "set_failed"}

\* C8: convert() has stored the record {pending, 0, Initializing} before it
\* starts the task; the task finds its record at every position where it
\* uses it; and a status request made after convert() returned, and before
\* a cleanup removed the record, does not answer not found.
C8_RecordBeforeTask ==
  /\ \A j \in Jobs :
       /\ cpc[j] = "inserted" => j \in jobs /\ rec[j] = InitialRecord /\ tpc[j] = "unstarted"
       /\ tpc[j] # "unstarted" => cpc[j] \in {"started", "returned"}
       /\ tpc[j] \in RecordPcs \cup (LocalPcs \ {"rmtree"}) => j \in jobs
       /\ loc[j].cause # "KeyError"
  /\ \A q \in Queries :
       qry[q].after /\ ~qry[q].cleaned => qry[q].result # "not_found"

\* C8 witness: convert() has returned while the task has not yet written
\* anything, and a status request made after the return answered pending.
C8_Witness ==
  \E j \in Jobs, q \in Queries :
    /\ cpc[j] = "returned" /\ tpc[j] = "set_processing"
    /\ qry[q].id = j /\ qry[q].after /\ qry[q].result = "ok"
    /\ qry[q].snap.status = "pending"

\* ------------------------------------------------------ the detector claims
Sampled(j) == trace[j].sampled
Emitted(j) == trace[j].emitted

\* the i-th sampled frame differs from the one sampled before it
ChangeAt(j, i) ==
  /\ i \in 2..Len(Sampled(j))
  /\ ScoreBelow(Normalize(Sampled(j)[i - 1].hist), Normalize(Sampled(j)[i].hist), threshold)

\* the frame the generator holds while the i-th sampled frame is processed
HeldBefore(j, i) == IF i >= 2 THEN Sampled(j)[i - 1] ELSE NoFrame

\* C9: before the end of the input a frame is emitted only while a sampled
\* frame other than the first is processed whose similarity to the frame
\* sampled before it is below the threshold, and the frame emitted is that
\* preceding frame; once a frame is processed it is the held frame and its
\* histogram the previous histogram, with or without an emission.
C9_EmitHeldFrameOnChange ==
  \A j \in Jobs :
    /\ \A k \in 1..Len(Emitted(j)) :
         Emitted(j)[k].by = "change" =>
           \E i \in 2..Len(Sampled(j)) :
             /\ Sampled(j)[i].idx = Emitted(j)[k].at
             /\ ChangeAt(j, i)
             /\ Emitted(j)[k].frame = Sampled(j)[i - 1]
    /\ Len(Sampled(j)) = 1 /\ tpc[j] # "done" /\ loc[j].resume = "running" => Emitted(j) = <<>>
    /\ (tpc[j] = "gen_loop" /\ Sampled(j) # <<>>) =>
         /\ loc[j].last_good_frame = Sampled(j)[Len(Sampled(j))]
         /\ loc[j].prev_hist = Normalize(Sampled(j)[Len(Sampled(j))].hist)
    /\ (tpc[j] \in {"gen_progress", "gen_stage", "gen_compare"}
          \/ loc[j].resume = "after_yield") =>
         loc[j].last_good_frame = HeldBefore(j, Len(Sampled(j)))

\* C9 witness: the third sampled frame differs from the second, the second
\* was emitted for it, and the third has become the held frame.
C9_Witness ==
  \E j \in Jobs :
    /\ Len(Sampled(j)) = 3 /\ tpc[j] = "gen_loop"
    /\ ~ChangeAt(j, 2) /\ ChangeAt(j, 3)
    /\ Len(Emitted(j)) = 1 /\ Emitted(j)[1].frame = Sampled(j)[2]
    /\ loc[j].last_good_frame = Sampled(j)[3]

Changes(j) == {i \in 2..Len(Sampled(j)) : ChangeAt(j, i)}

\* C10: when the generator has ended it has emitted one frame per adjacent
\* sampled pair below the threshold plus the flush, so between 1 and n frames
\* for n >= 1 sampled frames and exactly 1 when all are alike; nothing when
\* no frame was sampled.
C10_EmittedCount ==
  \A j \in Jobs :
    loc[j].resume = "ended" =>
      /\ Sampled(j) = <<>> => Emitted(j) = <<>>
      /\ Sampled(j) # <<>> =>
           /\ Len(Emitted(j)) = Cardinality(Changes(j)) + 1
           /\ Len(Emitted(j)) >= 1 /\ Len(Emitted(j)) <= Len(Sampled(j))
           /\ (\A i \in 1..Len(Sampled(j)) : Sampled(j)[i].hist = Sampled(j)[1].hist)
                => Len(Emitted(j)) = 1
           /\ Emitted(j)[Len(Emitted(j))].by = "flush"

\* C10 witness: four sampled frames that change at every sample: three
\* emissions and the flush.
C10_Witness ==
  \E j \in Jobs :
    /\ loc[j].resume = "ended" /\ Len(Sampled(j)) = 4
    /\ Cardinality(Changes(j)) = 3 /\ Len(Emitted(j)) = 4

\* --------------------------------------------------- the display file name
\* a title none of whose characters the first substitution keeps
NoPermitted(title) == KeepPermitted(title) = <<>>

\* C11: the filename stored for a job is the sanitised form of the title the
\* download returned, and for a title without any permitted character it is
\* the default name video-slides.pdf.
C11_DefaultNameForUnpermittedTitle ==
  \A j \in Jobs :
    rec[j].filename # Nil =>
      /\ rec[j].filename = SafeFilename(trace[j].title)
      /\ NoPermitted(trace[j].title) => rec[j].filename = DefaultFilename

\* ------------------------------------------------- a call that never returns
\* No thread holds the lock at a position where it makes an external call,
\* and a thread blocked in such a call does not hold it.
LockFreeAcrossCalls ==
  \A j \in Jobs : lock = Task(j) => tpc[j] \notin HangPcs \cup {"hung"}

\* C12 (its safety part and the finite form of its progress part): the lock
\* is free across every external call, and while one job is blocked in such
\* a call every other job whose task has ended is complete or failed.
C12_HungJobBlocksNoOther ==
  /\ LockFreeAcrossCalls
  /\ \A j, k \in Jobs :
       j # k /\ tpc[k] = "hung" /\ tpc[j] \in {"done", "died"} => rec[j].status \in Terminal

\* ------------------------------------------------------- the frame sampler
\* floor(rate / 1) with a minimum of 1, for a rate in tenths
FloorMin1(fps) == IF fps \div 10 = 0 THEN 1 ELSE fps \div 10

\* the stride as C13 states it
StatedStride(fps) == FloorMin1(fps)

\* the stride with a reported rate of 0 replaced by 30 frames per second
FallbackStride(fps) == IF fps = 0 THEN FloorMin1(300) ELSE FloorMin1(fps)

\* The sampler of job j reads the indices 0, s, 2s, ... in this order, goes
\* on while an index below the frame count is left, and stops only at the
\* end of the input or at a read that fails.
ReadsAtStride(j, s) ==
  /\ \A i \in 1..Len(Sampled(j)) : Sampled(j)[i].idx = (i - 1) * s
  /\ tpc[j] \in {"gen_progress", "gen_stage", "gen_compare"} =>
       /\ loc[j].frame_count = (Len(Sampled(j)) - 1) * s
       /\ loc[j].frame_count < loc[j].total_frames
  /\ tpc[j] = "gen_loop" => loc[j].frame_count = Len(Sampled(j)) * s
  /\ tpc[j] = "gen_flush" =>
       /\ trace[j].stop \in {"eof", "readfail"}
       /\ trace[j].stop = "eof" => Len(Sampled(j)) * s >= loc[j].total_frames
       /\ trace[j].stop = "readfail" => Len(Sampled(j)) * s < loc[j].total_frames
  /\ trace[j].stop # None => tpc[j] \notin {"gen_loop", "gen_progress", "gen_stage", "gen_compare"}

\* C13 as stated: the stride is floor(rate / target) with a minimum of 1 for
\* every reported rate, 0 included.
C13_StrideAsStated ==
  \A j \in Jobs : trace[j].fps # -1 => ReadsAtStride(j, StatedStride(trace[j].fps))

\* C13 amended: as C13, but a reported rate of 0 is taken as 30 frames per
\* second before the division, so the stride is then 30.
C13_Stride ==
  \A j \in Jobs : trace[j].fps # -1 => ReadsAtStride(j, FallbackStride(trace[j].fps))

\* C13 witness: at 2 frames per second of a 4-frame video the sampler has
\* read the indices 0 and 2 and stopped at the end of the input.
C13_Witness ==
  \E j \in Jobs :
    /\ trace[j].fps = 20 /\ trace[j].stop = "eof" /\ tpc[j] = "gen_flush"
    /\ Len(Sampled(j)) = 2 /\ Sampled(j)[2].idx = 2

\* a read of job j failed after at least one frame was read
PartialSequence(j) == trace[j].stop = "readfail" /\ Sampled(j) # <<>>

\* C14: after a read failure that follows at least one successful read the
\* generator goes to its flush and ends normally: nothing is raised to the
\* assembler (the task fails only if writing the document does), the frames
\* emitted before stay as they were followed by the flush of the last frame
\* read, each emitted frame becomes a page, and a task that ends without an
\* error has made the job complete with the document written.
C14_PartialSequenceCompletes ==
  \A j \in Jobs :
    PartialSequence(j) =>
      /\ loc[j].cause \in {None, "output_raise"}
      /\ tpc[j] \in {"set_failed", "rmtree"} => loc[j].cause = "output_raise"
      /\ tpc[j] # "gen_flush" =>
           /\ Emitted(j) # <<>>
           /\ Emitted(j)[Len(Emitted(j))].by = "flush"
           /\ Emitted(j)[Len(Emitted(j))].frame = Sampled(j)[Len(Sampled(j))]
           /\ Len(Emitted(j)) = Cardinality(Changes(j)) + 1
      /\ tpc[j] = "after_loop" =>
           /\ loc[j].processed_frames = Len(Emitted(j))
           /\ loc[j].pages = [i \in 1..Len(Emitted(j)) |-> Emitted(j)[i].frame.idx]
      /\ tpc[j] = "done" /\ loc[j].cause = None =>
           rec[j].status = "complete" /\ ws[j].pdf

\* C14 witness: the third read of a video failed after a scene change; the
\* job is complete with the two frames read.
C14_Witness ==
  \E j \in Jobs :
    /\ PartialSequence(j) /\ Len(Sampled(j)) = 2 /\ Len(Emitted(j)) = 2
    /\ tpc[j] = "done" /\ rec[j].status = "complete" /\ ws[j].pdf

\* ------------------------------------------------------------ the assembler
\* the task is past save_frames_to_pdf and its locals still exist; a
\* download that failed (the assembler never ran) and an error of the final
\* pdf.output itself are left aside
AssemblerOver(j) ==
  /\ tpc[j] \in {"set_complete", "set_filepath", "set_temp_dir", "set_filename",
                 "set_failed", "rmtree"}
  /\ loc[j].cause \notin {"download", "output_raise"}

\* save_frames_to_pdf returned True
ReportedSuccess(j) ==
  tpc[j] \in {"set_complete", "set_filepath", "set_temp_dir", "set_filename"}

\* the frames of job j that were encoded into a page, in the order pulled
EncodedFrames(j) ==
  LET ok == SelectSeq(loc[j].pulled, LAMBDA e : e.outcome = "page")
  IN [i \in 1..Len(ok) |-> ok[i].idx]

\* C15: the pages are the successfully encoded frames in the order pulled;
\* when the assembler is over, the document is written and success reported
\* if and only if at least one page was appended; without a page there is no
\* document and no success.
C15_DocumentIffPage ==
  \A j \in Jobs :
    /\ loc[j].pages = EncodedFrames(j)
    /\ loc[j].processed_frames = Len(loc[j].pages)
    /\ AssemblerOver(j) =>
         /\ (ws[j].pdf /\ ReportedSuccess(j)) <=> loc[j].processed_frames >= 1
         /\ loc[j].processed_frames = 0 => ~ws[j].pdf /\ ~ReportedSuccess(j)

\* C16: the assembler is never left because a frame failed to encode, so a
\* job with a page appended is not failed for an encode failure.
C16_EncodeFailureAbsorbed ==
  \A j \in Jobs :
    rec[j].status = "failed" /\ loc[j].processed_frames >= 1 => loc[j].cause # "encode_raise"

\* C17: an intermediate file exists only between its creation and the end
\* of the iteration that created it, whatever the outcome of the encoding:
\* never more than one exists, none exists while the generator runs for the
\* next frame, and none after the assembler has returned or raised.  An
\* iteration begins only for a frame the generator has just handed over,
\* after every iteration before it has ended with an outcome.
C17_OneIntermediateFile ==
  \A j \in Jobs :
    /\ loc[j].temp_img \in {0, 1}
    /\ loc[j].temp_img = 1 <=> tpc[j] = "encode"
    /\ tpc[j] \in {"mktemp", "encode"} =>
         /\ loc[j].yielded # NoFrame
         /\ loc[j].resume \in {"after_yield", "after_flush"}
         /\ \A i \in 1..Len(loc[j].pulled) : loc[j].pulled[i].outcome \in {"page", "skip"}

\* C17 witness: the first frame was skipped and the encoding of the second
\* raised; no intermediate file is left when the assembler is left.
C17_Witness ==
  \E j \in Jobs :
    /\ tpc[j] = "set_failed" /\ loc[j].cause = "encode_raise" /\ loc[j].temp_img = 0
    /\ Len(loc[j].pulled) = 2 /\ loc[j].pulled[1].outcome = "skip"

\* ------------------------------------------------------ concurrent downloads
\* C18: a record that is in the store with status complete has its workspace
\* and its document, so a download request that read status complete and
\* found the result fields can open the document.
C18_CompleteRecordHasDocument ==
  /\ \A j \in Jobs :
       j \in jobs /\ rec[j].status = "complete" => ws[j].dir = "present" /\ ws[j].pdf
  /\ \A r \in Retrieves :
       ret[r].seen = "complete" => ret[r].result # "FileNotFoundError"

\* C19: a download request that read status complete finds the output path
\* and the workspace path in the record: it does not end with a KeyError.
C19_CompleteRetrieveFindsFields ==
  \A r \in Retrieves :
    ret[r].seen = "complete" =>
      /\ ret[r].result # "KeyError"
      /\ ret[r].pc \in {"temp_dir", "filename", "send", "cleanup", "del"} => ret[r].filepath # Nil
      /\ ret[r].pc \in {"filename", "send", "cleanup", "del"} => ret[r].temp_dir # Nil

\* ------------------------------------------------- the emitted subsequence
\* C20: every emitted frame is a sampled frame, the source indices of the
\* emitted frames increase strictly (as those of the sampled frames do), so
\* the emitted sequence is a subsequence of the sampled one without a
\* repetition; and when the generator has ended after sampling at least one
\* frame, the last emitted frame is the last sampled frame.
C20_EmittedSubsequence ==
  \A j \in Jobs :
    /\ \A i \in 1..(Len(Sampled(j)) - 1) : Sampled(j)[i].idx < Sampled(j)[i + 1].idx
    /\ \A k \in 1..Len(Emitted(j)) :
         \E i \in 1..Len(Sampled(j)) : Emitted(j)[k].frame = Sampled(j)[i]
    /\ \A k \in 1..(Len(Emitted(j)) - 1) :
         Emitted(j)[k].frame.idx < Emitted(j)[k + 1].frame.idx
    /\ loc[j].resume = "ended" /\ Sampled(j) # <<>> =>
         /\ Emitted(j) # <<>>
         /\ Emitted(j)[Len(Emitted(j))].frame = Sampled(j)[Len(Sampled(j))]

\* C20 witness: four sampled frames with one change in the middle; the
\* second and the fourth were emitted.
C20_Witness ==
  \E j \in Jobs :
    /\ loc[j].resume = "ended" /\ Len(Sampled(j)) = 4
    /\ Len(Emitted(j)) = 2
    /\ Emitted(j)[1].frame = Sampled(j)[2] /\ Emitted(j)[2].frame = Sampled(j)[4]
====
